---- MODULE Spec2Model ----
(***************************************************************************)
(* Model of package gocollectanalytics (src/gocollectanalytics.go): the    *)
(* validator validateParameters, the event builder createEvent, the        *)
(* aggregated error multipleErrors.Error, and the Collector whose handler  *)
(* CollectData answers a request and hands the Event to the store on a     *)
(* separate goroutine (go coll.record(e)).                                 *)
(*                                                                         *)
(* A url.Values is a function from the keys to the list of values sent for *)
(* that key; the empty list is an absent key.  A Go string built by        *)
(* concatenation is the sequence of the pieces concatenated, so a rendered *)
(* error is a sequence of message texts and "\n" pieces.                   *)
(***************************************************************************)
EXTENDS Integers, Sequences, FiniteSets, TLC

\* ------------------------------------------------------------------------
\* Bounds
\* ------------------------------------------------------------------------

\* number of requests the HTTP layer delivers, each on its own goroutine
MaxReqs == 2

\* longest list of errors handed to multipleErrors.Error directly
MaxErrs == 3

Reqs == 1..MaxReqs

\* ------------------------------------------------------------------------
\* Values of the program
\* ------------------------------------------------------------------------

StatusOK == 200

StatusBadRequest == 400

\* the response header has not been written
NoStatus == 0

Keys == {"v", "tid", "t", "ec", "ea", "el", "cid", "ev"}

MsgVersion == "Version v must equal 1"

MsgSite == "Site id tid must be supplied"

MsgHitType == "Hit type 't' must be set, only type 'event' is currently supported"

MsgCategory == "Events must have a category"

MsgAction == "Events must have an action"

MsgHeader == "multiple errors:"

Messages == {MsgVersion, MsgSite, MsgHitType, MsgCategory, MsgAction}

\* the zero value of type Event
Event == [Site |-> "", ClientID |-> "", Category |-> "", Action |-> "",
          Label |-> "", Value |-> 0]

\* url.Values.Get: the first value of the key, "" when there is none
Get(vals, key) == IF Len(vals[key]) = 0 THEN "" ELSE vals[key][1]

\* ------------------------------------------------------------------------
\* validateParameters, createEvent, multipleErrors.Error
\* ------------------------------------------------------------------------

\* a validator that returns at the first violated rule
validateParameters_FirstOnly(vals) ==
    LET errs == IF Get(vals, "v") # "1" THEN <<MsgVersion>>
                ELSE IF Get(vals, "tid") = "" THEN <<MsgSite>>
                ELSE IF Get(vals, "t") # "event" THEN <<MsgHitType>>
                ELSE IF Get(vals, "ec") = "" THEN <<MsgCategory>>
                ELSE IF Get(vals, "ea") = "" THEN <<MsgAction>>
                ELSE <<>>
    IN  IF Len(errs) > 0 THEN [valid |-> FALSE, errs |-> errs]
        ELSE [valid |-> TRUE, errs |-> <<>>]

\* a validator that forgets the action rule
validateParameters_NoAction(vals) ==
    LET errs0 == <<>>
        errs1 == IF Get(vals, "v") # "1" THEN Append(errs0, MsgVersion) ELSE errs0
        errs2 == IF Get(vals, "tid") = "" THEN Append(errs1, MsgSite) ELSE errs1
        errs3 == IF Get(vals, "t") # "event" THEN Append(errs2, MsgHitType) ELSE errs2
        errs4 == IF Get(vals, "t") = "event" /\ Get(vals, "ec") = ""
                 THEN Append(errs3, MsgCategory) ELSE errs3
    IN  IF Len(errs4) > 0 THEN [valid |-> FALSE, errs |-> errs4]
        ELSE [valid |-> TRUE, errs |-> <<>>]

\* a validator that forgets the site id rule
validateParameters_NoSite(vals) ==
    LET errs0 == <<>>
        errs1 == IF Get(vals, "v") # "1" THEN Append(errs0, MsgVersion) ELSE errs0
        errs3 == IF Get(vals, "t") # "event" THEN Append(errs1, MsgHitType) ELSE errs1
        errs4 == IF Get(vals, "t") = "event" /\ Get(vals, "ec") = ""
                 THEN Append(errs3, MsgCategory) ELSE errs3
        errs5 == IF Get(vals, "t") = "event" /\ Get(vals, "ea") = ""
                 THEN Append(errs4, MsgAction) ELSE errs4
    IN  IF Len(errs5) > 0 THEN [valid |-> FALSE, errs |-> errs5]
        ELSE [valid |-> TRUE, errs |-> <<>>]

\* a validator whose category and action rules do not look at the hit type
validateParameters_AnyHitType(vals) ==
    LET errs0 == <<>>
        errs1 == IF Get(vals, "v") # "1" THEN Append(errs0, MsgVersion) ELSE errs0
        errs2 == IF Get(vals, "tid") = "" THEN Append(errs1, MsgSite) ELSE errs1
        errs3 == IF Get(vals, "t") # "event" THEN Append(errs2, MsgHitType) ELSE errs2
        errs4 == IF Get(vals, "ec") = "" THEN Append(errs3, MsgCategory) ELSE errs3
        errs5 == IF Get(vals, "ea") = "" THEN Append(errs4, MsgAction) ELSE errs4
    IN  IF Len(errs5) > 0 THEN [valid |-> FALSE, errs |-> errs5]
        ELSE [valid |-> TRUE, errs |-> <<>>]

\* validateParameters: every rule is tested in turn and appends its message;
\* the result is (false, errs) when errs is not empty and (true, nil) otherwise
validateParameters(vals) ==
    LET errs0 == <<>>
        errs1 == IF Get(vals, "v") # "1" THEN Append(errs0, MsgVersion) ELSE errs0
        errs2 == IF Get(vals, "tid") = "" THEN Append(errs1, MsgSite) ELSE errs1
        errs3 == IF Get(vals, "t") # "event" THEN Append(errs2, MsgHitType) ELSE errs2
        errs4 == IF Get(vals, "t") = "event" /\ Get(vals, "ec") = ""
                 THEN Append(errs3, MsgCategory) ELSE errs3
        errs5 == IF Get(vals, "t") = "event" /\ Get(vals, "ea") = ""
                 THEN Append(errs4, MsgAction) ELSE errs4
    IN  IF Len(errs5) > 0 THEN [valid |-> FALSE, errs |-> errs5]
        ELSE [valid |-> TRUE, errs |-> <<>>]

\* an event builder that also fills in the client id
createEvent_ClientID(data) ==
    [Event EXCEPT !.Site = Get(data, "tid"), !.Category = Get(data, "ec"),
                  !.Action = Get(data, "ea"), !.Label = Get(data, "el"),
                  !.ClientID = Get(data, "cid")]

\* createEvent: Site, Category, Action and Label are set, the other fields
\* of the composite literal keep their zero values
createEvent(data) ==
    [Event EXCEPT !.Site = Get(data, "tid"), !.Category = Get(data, "ec"),
                  !.Action = Get(data, "ea"), !.Label = Get(data, "el")]

\* the loop of multipleErrors.Error: msg += "\n" + err.Error() for each err
RECURSIVE ErrorLoop(_, _, _)
ErrorLoop(msg, e, i) ==
    IF i > Len(e) THEN msg
    ELSE ErrorLoop(msg \o <<"\n", e[i]>>, e, i + 1)

\* a rendering without the single-error case
Error_AlwaysHeader(e) == ErrorLoop(<<MsgHeader>>, e, 1)

\* multipleErrors.Error
Error(e) ==
    IF Len(e) = 1 THEN <<e[1]>>
    ELSE ErrorLoop(<<MsgHeader>>, e, 1)

\* ------------------------------------------------------------------------
\* Inputs
\* ------------------------------------------------------------------------

\* query strings: per key, the lists of values a request may carry
AllParams ==
    { [v |-> a, tid |-> b, t |-> c, ec |-> d, ea |-> f, el |-> g, cid |-> h, ev |-> i] :
        a \in {<<>>, <<"1">>, <<"2">>, <<"2", "1">>},
        b \in {<<>>, <<"">>, <<"site1">>},
        c \in {<<>>, <<"event">>, <<"pageview">>, <<"pageview", "event">>},
        d \in {<<>>, <<"">>, <<"nav">>},
        f \in {<<>>, <<"click">>},
        g \in {<<>>, <<"home">>},
        h \in {<<>>, <<"c42">>},
        i \in {<<>>, <<"7">>} }

\* the query string without any key
NoParams == [k \in Keys |-> <<>>]

Query(a, b, c, d, f, g) ==
    [NoParams EXCEPT !["v"] = a, !["tid"] = b, !["t"] = c, !["ec"] = d,
                     !["ea"] = f, !["el"] = g]

\* the query strings the requests of the collector carry
ReqParams ==
    { Query(<<"1">>, <<"site1">>, <<"event">>, <<"nav">>, <<"click">>, <<>>),
      [Query(<<"1">>, <<"site2">>, <<"event">>, <<"nav">>, <<"view">>, <<"home">>)
          EXCEPT !["cid"] = <<"c42">>, !["ev"] = <<"7">>],
      Query(<<"1">>, <<"site1">>, <<"event">>, <<>>, <<"click">>, <<>>),
      Query(<<"2">>, <<"">>, <<"pageview">>, <<>>, <<>>, <<>>),
      Query(<<"1">>, <<"site1">>, <<"pageview">>, <<"nav">>, <<"click">>, <<>>),
      Query(<<"2">>, <<>>, <<"event">>, <<>>, <<>>, <<"home">>),
      Query(<<"1">>, <<"">>, <<"event">>, <<"nav">>, <<"click">>, <<>>),
      NoParams }

RECURSIVE SeqsUpTo(_, _)
SeqsUpTo(S, n) ==
    IF n = 0 THEN {<<>>}
    ELSE LET shorter == SeqsUpTo(S, n - 1)
         IN  shorter \cup {Append(q, x) : q \in shorter, x \in S}

\* lists of errors handed to multipleErrors.Error
ErrLists == SeqsUpTo({MsgVersion, MsgHitType, MsgAction, "boom"}, MaxErrs)

\* ------------------------------------------------------------------------
\* State
\* ------------------------------------------------------------------------

VARIABLES
    pc,        \* per request: "idle", "spawned" (after go coll.record(e)), "done"
    params,    \* per request: r.URL.Query()
    status,    \* per request: the status written to the ResponseWriter
    e,         \* per request: the local e of CollectData
    task,      \* per request: its record goroutine: "none", "ready", "inLogIt", "returned"
    result,    \* per request: what record returned: "", "ok", "boo!"
    logged,    \* the store: the LogIt invocations so far, in order
    diag,      \* the output of log.Print, in order
    fn,        \* which function was applied to the inputs below
    vals,      \* input: a url.Values
    errsIn,    \* input: a multipleErrors
    retValid,  \* validateParameters: first result
    retErrs,   \* validateParameters: second result
    retEvent,  \* createEvent: result
    retMsg     \* multipleErrors.Error: result

collVars == <<pc, params, status, e, task, result, logged, diag>>

fnVars == <<fn, vals, errsIn, retValid, retErrs, retEvent, retMsg>>

vars == <<pc, params, status, e, task, result, logged, diag,
          fn, vals, errsIn, retValid, retErrs, retEvent, retMsg>>

\* NewCollector: a collector with its store, no request received yet
NewCollector ==
    /\ pc = [r \in Reqs |-> "idle"]
    /\ params = [r \in Reqs |-> NoParams]
    /\ status = [r \in Reqs |-> NoStatus]
    /\ e = [r \in Reqs |-> Event]
    /\ task = [r \in Reqs |-> "none"]
    /\ result = [r \in Reqs |-> ""]
    /\ logged = <<>>
    /\ diag = <<>>

FnIdle ==
    /\ fn = "none"
    /\ retValid = FALSE
    /\ retErrs = <<>>
    /\ retEvent = Event
    /\ retMsg = <<>>

Init ==
    /\ NewCollector
    /\ FnIdle
    /\ vals = NoParams
    /\ errsIn = <<>>

\* ------------------------------------------------------------------------
\* The collector
\* ------------------------------------------------------------------------

\* a handler that starts the record goroutine whatever the validation says
CollectData_NoGate(r, p) ==
    /\ pc[r] = "idle"
    /\ params' = [params EXCEPT ![r] = p]
    /\ LET v == validateParameters(p)
       IN  /\ e' = [e EXCEPT ![r] = createEvent(p)]
           /\ task' = [task EXCEPT ![r] = "ready"]
           /\ IF v.valid # TRUE
              THEN /\ diag' = Append(diag, Error(v.errs))
                   /\ status' = [status EXCEPT ![r] = StatusBadRequest]
                   /\ pc' = [pc EXCEPT ![r] = "done"]
              ELSE /\ pc' = [pc EXCEPT ![r] = "spawned"]
                   /\ UNCHANGED <<status, diag>>
    /\ UNCHANGED <<result, logged>>
    /\ UNCHANGED fnVars

\* CollectData up to the go statement: request r arrives with query p.
\* Invalid: the error is printed and 400 written, the handler returns.
\* Valid: the Event is built and the record goroutine started.
CollectData(r, p) ==
    /\ pc[r] = "idle"
    /\ params' = [params EXCEPT ![r] = p]
    /\ LET v == validateParameters(p)
       IN  IF v.valid # TRUE
           THEN /\ diag' = Append(diag, Error(v.errs))
                /\ status' = [status EXCEPT ![r] = StatusBadRequest]
                /\ pc' = [pc EXCEPT ![r] = "done"]
                /\ UNCHANGED <<e, task>>
           ELSE /\ e' = [e EXCEPT ![r] = createEvent(p)]
                /\ task' = [task EXCEPT ![r] = "ready"]
                /\ pc' = [pc EXCEPT ![r] = "spawned"]
                /\ UNCHANGED <<status, diag>>
    /\ UNCHANGED <<result, logged>>
    /\ UNCHANGED fnVars

\* a handler that joins the record goroutine before it answers
CollectDataRespond_Join(r) ==
    /\ pc[r] = "spawned"
    /\ task[r] = "returned"
    /\ status' = [status EXCEPT ![r] = StatusOK]
    /\ pc' = [pc EXCEPT ![r] = "done"]
    /\ UNCHANGED <<params, e, task, result, logged, diag>>
    /\ UNCHANGED fnVars

\* a handler that reports what record returned
CollectDataRespond_Propagate(r) ==
    /\ pc[r] = "spawned"
    /\ status' = [status EXCEPT ![r] = IF result[r] = "boo!" THEN 500 ELSE StatusOK]
    /\ pc' = [pc EXCEPT ![r] = "done"]
    /\ UNCHANGED <<params, e, task, result, logged, diag>>
    /\ UNCHANGED fnVars

\* CollectData after the go statement: w.WriteHeader(http.StatusOK), return
CollectDataRespond(r) ==
    /\ pc[r] = "spawned"
    /\ status' = [status EXCEPT ![r] = StatusOK]
    /\ pc' = [pc EXCEPT ![r] = "done"]
    /\ UNCHANGED <<params, e, task, result, logged, diag>>
    /\ UNCHANGED fnVars

\* record, first half: the goroutine is scheduled and invokes store.LogIt
record(r) ==
    /\ task[r] = "ready"
    /\ logged' = Append(logged, [req |-> r, datatype |-> e[r]])
    /\ task' = [task EXCEPT ![r] = "inLogIt"]
    /\ UNCHANGED <<pc, params, status, e, result, diag>>
    /\ UNCHANGED fnVars

\* a record that submits the event again after a storage error
recordReturn_Retry(r, err) ==
    /\ task[r] = "inLogIt"
    /\ task' = [task EXCEPT ![r] = IF err THEN "ready" ELSE "returned"]
    /\ result' = [result EXCEPT ![r] = IF err THEN "boo!" ELSE "ok"]
    /\ UNCHANGED <<pc, params, status, e, logged, diag>>
    /\ UNCHANGED fnVars

\* record, second half: LogIt returns err (TRUE: an error, FALSE: nil) and
\* record returns "boo!" or "ok" to nobody
recordReturn(r, err) ==
    /\ task[r] = "inLogIt"
    /\ task' = [task EXCEPT ![r] = "returned"]
    /\ result' = [result EXCEPT ![r] = IF err THEN "boo!" ELSE "ok"]
    /\ UNCHANGED <<pc, params, status, e, logged, diag>>
    /\ UNCHANGED fnVars

Next ==
    \/ \E r \in Reqs, p \in ReqParams : CollectData(r, p)
    \/ \E r \in Reqs : CollectDataRespond(r)
    \/ \E r \in Reqs : record(r)
    \/ \E r \in Reqs, err \in BOOLEAN : recordReturn(r, err)

Spec == Init /\ [][Next]_vars

\* the Go scheduler runs every runnable goroutine; whether LogIt returns is
\* the store's business
FairSpec ==
    /\ Spec
    /\ \A r \in Reqs : WF_vars(CollectDataRespond(r))
    /\ \A r \in Reqs : WF_vars(record(r))

\* ------------------------------------------------------------------------
\* The functions on their own
\* ------------------------------------------------------------------------

FnInit ==
    /\ NewCollector
    /\ FnIdle
    /\ \/ vals \in AllParams /\ errsIn = <<>>
       \/ vals = NoParams /\ errsIn \in ErrLists

CallValidateParameters ==
    /\ fn = "none"
    /\ fn' = "validateParameters"
    /\ retValid' = validateParameters(vals).valid
    /\ retErrs' = validateParameters(vals).errs
    /\ UNCHANGED <<vals, errsIn, retEvent, retMsg>>
    /\ UNCHANGED collVars

CallCreateEvent ==
    /\ fn = "none"
    /\ fn' = "createEvent"
    /\ retEvent' = createEvent(vals)
    /\ UNCHANGED <<vals, errsIn, retValid, retErrs, retMsg>>
    /\ UNCHANGED collVars

\* Error on a given list of errors
CallError ==
    /\ fn = "none"
    /\ fn' = "Error"
    /\ retMsg' = Error(errsIn)
    /\ UNCHANGED <<vals, errsIn, retValid, retErrs, retEvent>>
    /\ UNCHANGED collVars

\* Error on the errors validateParameters returned, as log.Print(err) does
CallErrorOfResult ==
    /\ fn = "validateParameters"
    /\ retValid # TRUE
    /\ fn' = "validateParameters.Error"
    /\ retMsg' = Error(retErrs)
    /\ UNCHANGED <<vals, errsIn, retValid, retErrs, retEvent>>
    /\ UNCHANGED collVars

FnNext ==
    \/ CallValidateParameters
    \/ CallCreateEvent
    \/ CallError
    \/ CallErrorOfResult

FnSpec == FnInit /\ [][FnNext]_vars

\* ------------------------------------------------------------------------
\* The rules of the specification, stated on the query string itself
\* ------------------------------------------------------------------------

\* the value a key carries: its first occurrence, the empty string if absent
ValueOf(p, k) == IF p[k] = <<>> THEN "" ELSE Head(p[k])

RuleMsg == <<MsgVersion, MsgSite, MsgHitType, MsgCategory, MsgAction>>

\* the rules 1..5 a query string violates
Violated(p) ==
    { i \in 1..5 :
        \/ i = 1 /\ ValueOf(p, "v") # "1"
        \/ i = 2 /\ ValueOf(p, "tid") = ""
        \/ i = 3 /\ ValueOf(p, "t") # "event"
        \/ i = 4 /\ ValueOf(p, "t") = "event" /\ ValueOf(p, "ec") = ""
        \/ i = 5 /\ ValueOf(p, "t") = "event" /\ ValueOf(p, "ea") = "" }

\* the items v=1, tid, t=event, ec, ea (numbered 1..5) a query string lacks
Missing(p) ==
    { i \in 1..5 :
        \/ i = 1 /\ ValueOf(p, "v") # "1"
        \/ i = 2 /\ ValueOf(p, "tid") = ""
        \/ i = 3 /\ ValueOf(p, "t") # "event"
        \/ i = 4 /\ ValueOf(p, "ec") = ""
        \/ i = 5 /\ ValueOf(p, "ea") = "" }

\* the messages of the rules in S, each once, in rule order
MsgsOf(S) ==
    LET In(i) == i \in S
        sel == SelectSeq(<<1, 2, 3, 4, 5>>, In)
    IN  [j \in 1..Len(sel) |-> RuleMsg[sel[j]]]

Passes(p) == Violated(p) = {}

Range(q) == { q[i] : i \in 1..Len(q) }

\* the LogIt invocations made for request r
CallsFor(r) == { i \in 1..Len(logged) : logged[i].req = r }

\* ------------------------------------------------------------------------
\* Claims
\* ------------------------------------------------------------------------

\* C1: validateParameters returns (true, no messages) exactly when none of
\* the five rules is violated, and otherwise false with the messages of the
\* violated rules, each once, in rule order, and nothing else; an absent key
\* counts as the empty string.
C1_ValidIffNoRuleViolated ==
    fn = "validateParameters" =>
        /\ retValid = (Violated(vals) = {})
        /\ retErrs = MsgsOf(Violated(vals))

C1_Witness ==
    /\ fn = "validateParameters"
    /\ vals["tid"] = <<>>
    /\ vals["v"] = <<"2", "1">>
    /\ Violated(vals) = {1, 2, 5}
    /\ retErrs = <<MsgVersion, MsgSite, MsgAction>>

\* C2 as stated: whenever some of v=1, tid, t=event, ec, ea are missing, the
\* result is invalid with one message per missing item, in rule order, also
\* for a missing ec or ea while t=event is missing.
C2_OneMessagePerMissingItem ==
    (fn = "validateParameters" /\ Missing(vals) # {}) =>
        /\ retValid = FALSE
        /\ retErrs = MsgsOf(Missing(vals))

\* C2 as amended: whenever some of v=1, tid, t=event, ec, ea are missing, the
\* result is invalid with one message per missing item among v=1, tid and
\* t=event, and one per missing ec or ea only if t=event is present; a
\* missing ec or ea yields no message when t=event is missing as well.
C2_MissingItemsReportedUnlessHitTypeMissing ==
    (fn = "validateParameters" /\ Missing(vals) # {}) =>
        LET reported == IF 3 \in Missing(vals) THEN Missing(vals) \ {4, 5}
                        ELSE Missing(vals)
        IN  /\ retValid = FALSE
            /\ retErrs = MsgsOf(reported)

C2_Witness ==
    /\ fn = "validateParameters"
    /\ Missing(vals) = {1, 3, 4, 5}
    /\ retErrs = <<MsgVersion, MsgHitType>>

\* C3: a request that fails validation is answered 400, no Event is built
\* for it and LogIt is never invoked for it; while only invalid requests have
\* arrived the store has received nothing.
C3_InvalidNeverReachesStore ==
    /\ \A r \in Reqs :
         (pc[r] # "idle" /\ ~Passes(params[r])) =>
            /\ pc[r] = "done"
            /\ status[r] = StatusBadRequest
            /\ e[r] = Event
            /\ task[r] = "none"
            /\ CallsFor(r) = {}
    /\ (\A r \in Reqs : pc[r] # "idle" => ~Passes(params[r])) => logged = <<>>

C3_Witness ==
    /\ \A r \in Reqs : pc[r] = "done" /\ status[r] = StatusBadRequest
    /\ Len(diag) = MaxReqs
    /\ logged = <<>>

\* C4: a request that passes validation is answered 200 whatever LogIt
\* returns; no response carries a status other than 200 or 400, 400 only for
\* an invalid request, and a request not yet received can still be handled
\* whatever the store returned to others.
C4_StorageErrorNeverSurfaces ==
    \A r \in Reqs :
        /\ status[r] \in {NoStatus, StatusOK, StatusBadRequest}
        /\ (pc[r] = "done" /\ Passes(params[r])) => status[r] = StatusOK
        /\ status[r] = StatusBadRequest => ~Passes(params[r])
        /\ pc[r] = "idle" => ENABLED (\E p \in ReqParams : CollectData(r, p))

C4_Witness ==
    \E r \in Reqs, q \in Reqs :
        /\ pc[r] = "done" /\ status[r] = StatusOK /\ result[r] = "boo!"
        /\ pc[q] = "idle"

\* C5: a handler that has started its record goroutine can always write its
\* 200, whether or not any LogIt call has started or returned.
C5_ResponseNeverWaits ==
    \A r \in Reqs : pc[r] = "spawned" => ENABLED CollectDataRespond(r)

C5_Witness ==
    \E r \in Reqs, q \in Reqs :
        /\ status[r] = StatusOK /\ task[r] = "ready"
        /\ status[q] = StatusOK /\ task[q] = "inLogIt"

\* C6: createEvent returns Site = tid, Category = ec, Action = ea, Label = el
\* (empty when absent), ClientID = "" and Value = 0 whatever cid or value
\* parameter is supplied, and any query string with the same tid, ec, ea and
\* el gives the same Event.
C6_EventMapping ==
    fn = "createEvent" =>
        /\ retEvent.Site = ValueOf(vals, "tid")
        /\ retEvent.Category = ValueOf(vals, "ec")
        /\ retEvent.Action = ValueOf(vals, "ea")
        /\ retEvent.Label = ValueOf(vals, "el")
        /\ retEvent.ClientID = ""
        /\ retEvent.Value = 0
        /\ \A q \in AllParams :
             (\A k \in {"tid", "ec", "ea", "el"} : ValueOf(q, k) = ValueOf(vals, k))
                => createEvent(q) = retEvent

C6_Witness ==
    /\ fn = "createEvent"
    /\ vals["cid"] = <<"c42">>
    /\ vals["ev"] = <<"7">>
    /\ vals["el"] = <<>>
    /\ retEvent = [Site |-> "site1", ClientID |-> "", Category |-> "nav",
                   Action |-> "click", Label |-> "", Value |-> 0]

\* C7: Error of exactly one message is that message unchanged; Error of
\* N > 1 messages is "multiple errors:" followed, for each message in order,
\* by a newline and the message.
C7_ErrorRendering ==
    fn \in {"Error", "validateParameters.Error"} =>
        LET src == IF fn = "Error" THEN errsIn ELSE retErrs
        IN  /\ Len(src) = 1 => retMsg = <<src[1]>>
            /\ Len(src) > 1 =>
                 /\ Len(retMsg) = 1 + 2 * Len(src)
                 /\ retMsg[1] = MsgHeader
                 /\ \A i \in 1..Len(src) :
                      retMsg[2 * i] = "\n" /\ retMsg[2 * i + 1] = src[i]

C7_Witness ==
    /\ fn = "validateParameters.Error"
    /\ retErrs = <<MsgVersion, MsgSite, MsgHitType>>
    /\ retMsg = <<MsgHeader, "\n", MsgVersion, "\n", MsgSite, "\n", MsgHitType>>

C8_BuiltFromValidRequest ==
    \A i \in 1..Len(logged) :
        LET r == logged[i].req
            d == logged[i].datatype
        IN  /\ d.Site # "" /\ d.Category # "" /\ d.Action # ""
            /\ d.Site = ValueOf(params[r], "tid")
            /\ d.Category = ValueOf(params[r], "ec")
            /\ d.Action = ValueOf(params[r], "ea")
            /\ ValueOf(params[r], "v") = "1"
            /\ ValueOf(params[r], "t") = "event"
            /\ status[r] # StatusBadRequest
            /\ pc[r] = "done" => status[r] = StatusOK

\* C8: every Event passed to LogIt has non-empty Site, Category and Action,
\* equal to the tid, ec and ea of a request with v = "1" and t = "event";
\* that request is never answered 400 and, its handler being scheduled, is
\* answered 200 (LogIt may be invoked before the 200 is written).
C8_LoggedEventsComeFromValidRequests ==
    /\ []C8_BuiltFromValidRequest
    /\ \A r \in Reqs : (CallsFor(r) # {}) ~> (status[r] = StatusOK)

C8_Witness ==
    /\ Len(logged) = 2
    /\ logged[1].datatype.Site # logged[2].datatype.Site
    /\ \A i \in 1..2 : pc[logged[i].req] = "done"

C9_AtMostOnce ==
    /\ Len(logged) <= Cardinality({ r \in Reqs : pc[r] # "idle" /\ Passes(params[r]) })
    /\ \A r \in Reqs : Cardinality(CallsFor(r)) <= 1
    /\ \A i \in 1..Len(logged) : logged[i].datatype = e[logged[i].req]
    /\ \A r \in Reqs : task[r] \in {"inLogIt", "returned"} => Cardinality(CallsFor(r)) = 1

\* C9: each valid request causes exactly one LogIt invocation carrying its
\* Event: the invocations never outnumber the requests that passed
\* validation, no request's Event is submitted twice, and under fair
\* scheduling of the goroutines the Event of every accepted request is
\* eventually passed to LogIt.
C9_ExactlyOneSubmission ==
    /\ []C9_AtMostOnce
    /\ \A r \in Reqs :
         (pc[r] # "idle" /\ Passes(params[r])) ~> (Cardinality(CallsFor(r)) = 1)

C9_Witness ==
    \E r \in Reqs :
        /\ status[r] = StatusOK
        /\ task[r] = "returned"
        /\ result[r] = "boo!"
        /\ Cardinality(CallsFor(r)) = 1
        /\ Len(logged) = MaxReqs

\* C10: an invalid result of validateParameters holds between one and four
\* messages, pairwise distinct, and the hit-type message never comes with
\* the category or the action message.
C10_AtMostFourDistinctMessages ==
    (fn = "validateParameters" /\ retValid = FALSE) =>
        /\ Len(retErrs) >= 1
        /\ Len(retErrs) <= 4
        /\ \A i, j \in 1..Len(retErrs) : i # j => retErrs[i] # retErrs[j]
        /\ MsgHitType \in Range(retErrs) =>
             (MsgCategory \notin Range(retErrs) /\ MsgAction \notin Range(retErrs))

C10_Witness ==
    /\ fn = "validateParameters"
    /\ retValid = FALSE
    /\ Len(retErrs) = 4

====
